---------------------------- MODULE Spec2Model ----------------------------
(***************************************************************************)
(* Model of the TripAdvisor review scraper: the per-listing ReviewCache,   *)
(* the card processing of one page (bounded-concurrency batches), the      *)
(* pagination loop with its result cap, one scraping session               *)
(* (scrapeReviews) and the batch driver (scrapeMultipleUrls / main).       *)
(***************************************************************************)
EXTENDS Integers, Sequences, FiniteSets, TLC

(***************************************************************************)
(* Bounds of the model                                                     *)
(***************************************************************************)
MaxCap == 2
MaxPages == 3
MaxCards == 2
RerunUrls == 2
RerunCards == 2
RerunPages == 1
MaxUrls == 3
MaxCmds == 3
IoUrls == 2
IoCards == 1
IoPages == 1
MaxPerPage == 1
ConfigCards == 2
ConfigPages == 2
UrlCards == 1
UrlPages == 1
ScenarioCards == 3
ScenarioPages == 2

MaxFailedClicks == 2

NavCards == 1

NavPages == 3

BatchCards == 11

MaxFailures == 1

FailCards == 2

(* URLs and cards of a run followed from initialize to cleanup. *)
MainUrls == 2

MainCards == 1

(* Cards on the page of a session that compares page structures. *)
LocateCards == 2

(* Cards on the page of a session that compares reviewer names. *)
NameCards == 2

(***************************************************************************)
(* Program constants                                                       *)
(***************************************************************************)
concurrencyLimit == 10
TitleMinLen == 5
TitleMaxLen == 200
TextMinLen == 20
NameMinLen == 2
NameMaxLen == 50
DefaultMaxReviewsPerPage == 50

(***************************************************************************)
(* Text.  A string is abstracted to its leading blanks, its non-blank      *)
(* body, its trailing blanks and a word naming the content.                *)
(***************************************************************************)
Txt(l, b, t, w) == [lead |-> l, body |-> b, trail |-> t, word |-> w]

EmptyText == Txt(0, 0, 0, "")

TLen(t) == t.lead + t.body + t.trail

Truthy(t) == TLen(t) > 0

Trim(t) == IF t.body = 0 THEN EmptyText ELSE [t EXCEPT !.lead = 0, !.trail = 0]

Anonymous == Txt(0, 9, 0, "Anonymous")

ChromeWords == {"Filters", "Sort", "Menu", "Search", "wrote", "helpful"}

(***************************************************************************)
(* Listing URLs.  did is the digit run of the first "d<digits>" of the     *)
(* URL ("" when there is none), prefix its first 20 characters with every  *)
(* non-alphanumeric character replaced by "_".                             *)
(* U1 and U2 are two listings, U3 is another URL of the listing of U1     *)
(* (a later page of its reviews), U4 and U5 URLs without "d<digits>" of    *)
(* two more listings of the site.  listing is the listing the URL shows.   *)
(* Scraping runs are over URLs, cache commands over AllUrls.               *)
(***************************************************************************)
URLs == {"U1", "U2"}

AllUrls == URLs \cup {"U3", "U4", "U5"}

UrlInfo ==
  [u \in AllUrls |->
     CASE u = "U1" -> [did |-> "111", prefix |-> "https___www_tripadvi", listing |-> "L1"]
       [] u = "U2" -> [did |-> "222", prefix |-> "https___www_tripadvi", listing |-> "L2"]
       [] u = "U3" -> [did |-> "111", prefix |-> "https___www_tripadvi", listing |-> "L1"]
       [] u = "U4" -> [did |-> "", prefix |-> "https___www_tripadvi", listing |-> "L4"]
       [] OTHER    -> [did |-> "", prefix |-> "https___www_tripadvi", listing |-> "L5"]]

(* A hashUrl that keeps the whole URL. *)
hashUrlWhole(u) == u

hashUrl(u) == IF UrlInfo[u].did # "" THEN UrlInfo[u].did ELSE UrlInfo[u].prefix

Keys == {hashUrl(u) : u \in AllUrls}

(***************************************************************************)
(* Review cards of the remote site.  A card carries what the DOM queries   *)
(* of the extractor see: the data-reviewid attribute, the id attribute,    *)
(* the sanitized first characters of its text, and the raw text of the     *)
(* first element matched for the name, the title and the body.  For the    *)
(* rating it carries the title texts of its svg elements in document       *)
(* order, the title text its first svg[aria-labelledby] points to, and the *)
(* number of filled bubble paths.  A title text is abstracted to whether   *)
(* it includes "bubble" and to the number that                             *)
(* /(\d+)\s+of\s+\d+\s+bubble/i captures in it (NoMatch when it does not    *)
(* match): 5 for "5 of 5 bubbles", 10 for "10 of 10 bubbles", 0 for        *)
(* "4.0 of 5 bubbles".                                                     *)
(***************************************************************************)
NoMatch == 0 - 1

Title(bubble, n) == [bubble |-> bubble, n |-> n]

NoTitle == Title(FALSE, NoMatch)

CardNames == {"cA", "cB", "cC", "cX", "cA2", "cG"}

(* Cards that differ in where the reviewer name can be found. *)
NameCardNames == {"cW", "cL", "cS"}

(* Elements that wrap the whole review list: the tab container and a div   *)
(* around the filter bar and the list.                                     *)
ContainerNames == {"cT", "cF"}

CardDom ==
  [c \in CardNames \cup NameCardNames \cup ContainerNames |->
     CASE c = "cA"  -> [svgTitles |-> << Title(TRUE, 5) >>,
                        ariaTitle |-> NoTitle, filledBubbles |-> 5,
                        reviewid |-> "r1", idAttr |-> "", textKey |-> "Ann_wrote",
                        nameRaw |-> Txt(0, 3, 0, "Ann"),
                        wroteRaw |-> Txt(0, 3, 0, "Ann"), spans |-> << >>,
                        titleRaw |-> Txt(0, 10, 0, "Great stay"),
                        textRaw |-> Txt(0, 30, 0, "prose1")]
       [] c = "cB"  -> [svgTitles |-> << Title(FALSE, NoMatch), Title(TRUE, 10) >>,
                        ariaTitle |-> NoTitle, filledBubbles |-> 0,
                        reviewid |-> "r2", idAttr |-> "", textKey |-> "Bob_wrote",
                        nameRaw |-> Txt(1, 3, 1, "Bob"),
                        wroteRaw |-> Txt(1, 3, 1, "Bob"), spans |-> << >>,
                        titleRaw |-> Txt(2, 8, 1, "Nice one"),
                        textRaw |-> Txt(0, 12, 0, "short")]
       [] c = "cC"  -> [svgTitles |-> << Title(TRUE, 0) >>,
                        ariaTitle |-> Title(TRUE, 4), filledBubbles |-> 4,
                        reviewid |-> "", idAttr |-> "review_3", textKey |-> "Filters",
                        nameRaw |-> Txt(0, 7, 0, "Filters"),
                        wroteRaw |-> EmptyText, spans |-> << >>,
                        titleRaw |-> Txt(0, 4, 0, "Good"),
                        textRaw |-> Txt(1, 25, 2, "prose3")]
       [] c = "cX"  -> [svgTitles |-> << >>,
                        ariaTitle |-> NoTitle, filledBubbles |-> 0,
                        reviewid |-> "r4", idAttr |-> "", textKey |-> "Dan_wrote",
                        nameRaw |-> Txt(0, 3, 0, "Dan"),
                        wroteRaw |-> Txt(0, 3, 0, "Dan"), spans |-> << >>,
                        titleRaw |-> Txt(0, 3, 0, "Meh"),
                        textRaw |-> Txt(3, 0, 0, "")]
       [] c = "cA2" -> [svgTitles |-> << Title(TRUE, 5) >>,
                        ariaTitle |-> NoTitle, filledBubbles |-> 5,
                        reviewid |-> "r1", idAttr |-> "", textKey |-> "Ann_wrote",
                        nameRaw |-> Txt(0, 3, 0, "Ann"),
                        wroteRaw |-> Txt(0, 3, 0, "Ann"), spans |-> << >>,
                        titleRaw |-> Txt(0, 10, 0, "Great stay"),
                        textRaw |-> Txt(0, 40, 0, "prose1_edited")]
       [] c = "cW"  -> [svgTitles |-> << Title(TRUE, 4) >>,
                        ariaTitle |-> NoTitle, filledBubbles |-> 4,
                        reviewid |-> "r6", idAttr |-> "", textKey |-> "helpfulGuy_wrote",
                        nameRaw |-> Txt(0, 10, 0, "helpful"),
                        wroteRaw |-> Txt(0, 10, 0, "helpful"), spans |-> << >>,
                        titleRaw |-> Txt(0, 10, 0, "Great stay"),
                        textRaw |-> Txt(0, 30, 0, "prose6")]
       [] c = "cL"  -> [svgTitles |-> << Title(TRUE, 4) >>,
                        ariaTitle |-> NoTitle, filledBubbles |-> 4,
                        reviewid |-> "r7", idAttr |-> "", textKey |-> "Lon_wrote",
                        nameRaw |-> Txt(1, 60, 0, "Lon"),
                        wroteRaw |-> Txt(1, 60, 0, "Lon"), spans |-> << >>,
                        titleRaw |-> Txt(0, 10, 0, "Great stay"),
                        textRaw |-> Txt(0, 30, 0, "prose7")]
       [] c = "cS"  -> [svgTitles |-> << Title(TRUE, 4) >>,
                        ariaTitle |-> NoTitle, filledBubbles |-> 4,
                        reviewid |-> "r8", idAttr |-> "", textKey |-> "May_2024",
                        nameRaw |-> Txt(0, 0, 0, ""),
                        wroteRaw |-> Txt(0, 0, 0, ""),
                        spans |-> << Txt(0, 3, 0, "May"), Txt(0, 4, 0, "Sort"),
                                     Txt(0, 2, 0, "Al"), Txt(1, 5, 0, "Carol") >>,
                        titleRaw |-> Txt(0, 10, 0, "Great stay"),
                        textRaw |-> Txt(0, 30, 0, "prose8")]
       [] c = "cT"  -> [svgTitles |-> << >>,
                        ariaTitle |-> NoTitle, filledBubbles |-> 0,
                        reviewid |-> "", idAttr |-> "tab-review-content",
                        textKey |-> "FiltersEnglish",
                        nameRaw |-> EmptyText,
                        wroteRaw |-> EmptyText, spans |-> << Txt(0, 7, 0, "Filters") >>,
                        titleRaw |-> EmptyText,
                        textRaw |-> Txt(0, 30, 0, "FiltersEnglish")]
       [] c = "cF"  -> [svgTitles |-> << >>,
                        ariaTitle |-> NoTitle, filledBubbles |-> 0,
                        reviewid |-> "", idAttr |-> "",
                        textKey |-> "FiltersEnglish",
                        nameRaw |-> EmptyText,
                        wroteRaw |-> EmptyText, spans |-> << Txt(0, 7, 0, "Filters") >>,
                        titleRaw |-> EmptyText,
                        textRaw |-> Txt(0, 30, 0, "FiltersEnglish")]
       [] OTHER     -> [svgTitles |-> << Title(TRUE, NoMatch) >>,
                        ariaTitle |-> Title(FALSE, NoMatch), filledBubbles |-> 3,
                        reviewid |-> "", idAttr |-> "main", textKey |-> "Gil_wrote",
                        nameRaw |-> Txt(2, 0, 0, ""),
                        wroteRaw |-> Txt(2, 0, 0, ""), spans |-> << >>,
                        titleRaw |-> Txt(0, 0, 0, ""),
                        textRaw |-> Txt(0, 22, 0, "prose5")]]

(***************************************************************************)
(* Field Extractor                                                         *)
(***************************************************************************)
(* extractReviewerName, lines 739-754 and 778: the words isUIElement finds  *)
(* in a text, and the month prefixes.                                      *)
UiWords == {"Filters", "Sort", "Menu", "Search", "wrote", "helpful"}

MonthWords == {"May"}

(* extractReviewerName, lines 774-780 and 800-806: the test of methods 3   *)
(* and 4 on the text of a span.                                            *)
NameLike(text) ==
  /\ Truthy(text) /\ Truthy(Trim(text))
  /\ TLen(Trim(text)) > NameMinLen /\ TLen(Trim(text)) < NameMaxLen
  /\ text.word \notin UiWords \cup MonthWords

RECURSIVE FirstNameLike(_)
FirstNameLike(spans) ==
  IF spans = << >> THEN EmptyText
  ELSE IF NameLike(Head(spans)) THEN Trim(Head(spans))
  ELSE FirstNameLike(Tail(spans))

(* extractReviewerName, lines 723-736 (method 2): the span of the profile  *)
(* link beside "wrote a review", returned trimmed when it is not blank.    *)
WroteAReview(card) ==
  IF Truthy(card.wroteRaw) /\ Truthy(Trim(card.wroteRaw)) THEN Trim(card.wroteRaw)
  ELSE EmptyText

(* extractReviewerName: method 1 (lines 692-721) on the span of the        *)
(* profile link, then method 2, then methods 3 and 4 (lines 756-816) on    *)
(* the other spans of the card, then "Anonymous".                          *)
extractReviewerName(card) ==
  LET t == Trim(card.nameRaw) IN
    IF Truthy(card.nameRaw) /\ Truthy(t) /\ card.nameRaw.word \notin ChromeWords
       /\ TLen(t) > NameMinLen /\ TLen(t) < NameMaxLen
    THEN t
    ELSE IF Truthy(WroteAReview(card)) THEN WroteAReview(card)
    ELSE IF Truthy(FirstNameLike(card.spans)) THEN FirstNameLike(card.spans)
    ELSE Anonymous

extractReviewTitle(card) ==
  LET t == Trim(card.titleRaw) IN
    IF Truthy(card.titleRaw) /\ TLen(t) > TitleMinLen /\ TLen(t) < TitleMaxLen
    THEN t
    ELSE EmptyText

extractReviewText(card) ==
  LET t == Trim(card.textRaw) IN
    IF Truthy(card.textRaw) /\ TLen(t) > TextMinLen THEN t ELSE EmptyText

(* extractRatingFromCard.  Method 1: the first svg whose title includes    *)
(* "bubble" and matches gives parseInt of the captured digits.  Method 2:  *)
(* the same on the title of the first svg[aria-labelledby].  Method 3: the *)
(* count of filled bubbles when it is in 1..5.  Else 0.                    *)
RECURSIVE FirstBubbleTitle(_)
FirstBubbleTitle(titles) ==
  IF titles = << >> THEN NoMatch
  ELSE IF Head(titles).bubble /\ Head(titles).n # NoMatch THEN Head(titles).n
       ELSE FirstBubbleTitle(Tail(titles))

extractRatingFromCard(card) ==
  IF FirstBubbleTitle(card.svgTitles) # NoMatch THEN FirstBubbleTitle(card.svgTitles)
  ELSE IF card.ariaTitle.bubble /\ card.ariaTitle.n # NoMatch THEN card.ariaTitle.n
       ELSE IF card.filledBubbles > 0 /\ card.filledBubbles <= 5 THEN card.filledBubbles
            ELSE 0

(***************************************************************************)
(* Review identity                                                         *)
(***************************************************************************)
IdAttrHasReview(s) == s \in {"review_3", "tab-review-content"}

ReviewId(card, index) ==
  IF card.reviewid # ""
  THEN [kind |-> "site", index |-> 0, key |-> card.reviewid]
  ELSE IF IdAttrHasReview(card.idAttr)
       THEN [kind |-> "attr", index |-> 0, key |-> card.idAttr]
       ELSE [kind |-> "generated", index |-> index, key |-> card.textKey]

IdTruthy(id) == id.kind = "generated" \/ id.key # ""


(***************************************************************************)
(* Reviews.  NoReviews is the empty id -> Review map.                      *)
(***************************************************************************)
NoReviews == << >>

Put(f, k, v) == [x \in (DOMAIN f) \cup {k} |-> IF x = k THEN v ELSE f[x]]

MkReview(id, name, rating, title, text) ==
  [id |-> id, reviewerName |-> name, rating |-> rating, reviewTitle |-> title,
   reviewText |-> text]

(* The validity rule of the data model: a name, and a title or a body.     *)
ValidReview(r) ==
  Truthy(r.reviewerName) /\ (Truthy(r.reviewTitle) \/ Truthy(r.reviewText))

(***************************************************************************)
(* Durable store: one file per key.  kind is "absent" (no file), "garbage" *)
(* (text that JSON.parse rejects), "null" (the JSON value null) or         *)
(* "object" (a JSON object; hasReviews tells whether it has a reviews map, *)
(* hotelUrl is "undefined" and lastUpdated NoDate when the object has no   *)
(* such member).  A date is the reading of the clock when it was taken.    *)
(***************************************************************************)
Undefined == "undefined"

NoDate == 0

EarlierDate == 1

FirstDate == 2

MkFile(kind, hasReviews, reviews, hotelUrl, lastUpdated) ==
  [kind |-> kind, hasReviews |-> hasReviews, reviews |-> reviews, hotelUrl |-> hotelUrl,
   lastUpdated |-> lastUpdated]

AbsentFile == MkFile("absent", FALSE, NoReviews, Undefined, NoDate)

GarbageFile == MkFile("garbage", FALSE, NoReviews, Undefined, NoDate)

NullFile == MkFile("null", FALSE, NoReviews, Undefined, NoDate)

EmptyObjectFile == MkFile("object", FALSE, NoReviews, Undefined, NoDate)

Corrupt(file) ==
  file.kind \in {"garbage", "null"} \/ (file.kind = "object" /\ ~file.hasReviews)

(***************************************************************************)
(* ReviewCache.  An instance is its store key (cacheFile) and its          *)
(* CacheData (reviews, lastUpdated, hotelUrl); isNull tells that           *)
(* this.cache is null.                                                     *)
(***************************************************************************)
MkCache(cacheFile, isNull, reviews, hotelUrl, lastUpdated) ==
  [cacheFile |-> cacheFile, isNull |-> isNull, reviews |-> reviews, hotelUrl |-> hotelUrl,
   lastUpdated |-> lastUpdated]

NoCache == MkCache("none", TRUE, NoReviews, Undefined, NoDate)

(***************************************************************************)
(* The file system under the cache directory: dir is "exists",             *)
(* "creatable" (absent, mkdirSync succeeds) or "uncreatable" (absent,      *)
(* mkdirSync throws); read and write tell whether readFileSync and         *)
(* writeFileSync on a store file succeed.                                  *)
(***************************************************************************)
MkFs(dir, read, write) == [dir |-> dir, read |-> read, write |-> write]

SoundFs == MkFs("exists", TRUE, TRUE)

(* ensureCacheDir: the directory after the call; it throws when the        *)
(* directory is missing and cannot be made.                                *)
ensureCacheDir(f) == IF f.dir = "creatable" THEN [f EXCEPT !.dir = "exists"] ELSE f

ensureCacheDirThrows(f) == f.dir = "uncreatable"

(* A loadCache that never reads the store. *)
loadCacheFresh(c, file, now, readable) == [threw |-> FALSE, warned |-> FALSE, cache |-> c]

(* loadCache, from the CacheData c the constructor has just initialised.   *)
(* parsed is this.cache after "this.cache = JSON.parse(data)"; tryThrows   *)
(* tells whether the try block throws (JSON.parse rejects the text, or     *)
(* Object.keys(this.cache.reviews) reads a member of null or gets          *)
(* undefined); the catch block reads this.cache.hotelUrl, which throws     *)
(* again when this.cache is null.  now is the date the catch block reads;  *)
(* readable tells whether readFileSync succeeds.                           *)
loadCache(c, file, now, readable) ==
  LET exists == file.kind # "absent"
      parses == readable /\ file.kind \in {"null", "object"}
      parsed == IF exists /\ parses
                THEN MkCache(c.cacheFile, file.kind = "null", file.reviews, file.hotelUrl,
                             file.lastUpdated)
                ELSE c
      tryThrows == exists /\ (~parses \/ parsed.isNull \/ ~file.hasReviews)
      catchThrows == tryThrows /\ parsed.isNull
  IN  [threw |-> catchThrows,
       warned |-> tryThrows,
       cache |-> IF catchThrows THEN parsed
                 ELSE IF tryThrows
                      THEN MkCache(c.cacheFile, FALSE, NoReviews, parsed.hotelUrl, now)
                      ELSE parsed]

CacheLoadError == "Cannot read properties of null (reading 'hotelUrl')"

MkdirError == "EACCES: permission denied, mkdir 'cache'"

(* constructor: the key from the URL, fresh CacheData, ensureCacheDir,     *)
(* then loadCache.  error is the message of what it throws.                *)
NewReviewCache(hotelUrl, store, now, f) ==
  LET c == MkCache(hashUrl(hotelUrl), FALSE, NoReviews, hotelUrl, now)
      ld == loadCache(c, store[hashUrl(hotelUrl)], now, f.read)
  IN  IF ensureCacheDirThrows(f)
      THEN [threw |-> TRUE, warned |-> FALSE, cache |-> c, error |-> MkdirError]
      ELSE [threw |-> ld.threw, warned |-> ld.warned, cache |-> ld.cache,
            error |-> IF ld.threw THEN CacheLoadError ELSE ""]

(* saveCache, line 67: the instance takes the date of the save.            *)
Stamp(c, now) == [c EXCEPT !.lastUpdated = now]

(* A saveCache that writes the store without the reviews. *)
saveCacheNoReviews(c) == MkFile("object", TRUE, NoReviews, c.hotelUrl, c.lastUpdated)

(* A saveCache that writes the store without the date member. *)
saveCacheNoDate(c) == MkFile("object", TRUE, c.reviews, c.hotelUrl, NoDate)

(* saveCache, line 68: the text written to this.cacheFile, that of         *)
(* JSON.stringify(this.cache): the members of CacheData, one without value *)
(* (undefined) left out.                                                   *)
saveCache(c) == MkFile("object", TRUE, c.reviews, c.hotelUrl, c.lastUpdated)

(* A hasReview that never finds an id. *)
hasReviewNever(c, id) == FALSE

hasReview(c, id) == id \in DOMAIN c.reviews

(* A getReview that hands out the record with its rating reset. *)
getReviewReset(c, id) == [c.reviews[id] EXCEPT !.rating = 0]

getReview(c, id) == c.reviews[id]

(* An addReview that stores nothing. *)
addReviewDropped(c, r) == c

addReview(c, r) ==
  IF IdTruthy(r.id) THEN [c EXCEPT !.reviews = Put(c.reviews, r.id, r)] ELSE c

getCachedReviewCount(c) == Cardinality(DOMAIN c.reviews)

getStats(c) ==
  [total |-> getCachedReviewCount(c), lastUpdated |-> c.lastUpdated, hotelUrl |-> c.hotelUrl]

(* A clearCache that keeps the reviews. *)
clearCacheKeep(c, now) == Stamp(c, now)

(* clearCache, lines 117-118; the saveCache of line 119 is in CacheClear.  *)
clearCache(c, now) == Stamp([c EXCEPT !.reviews = NoReviews], now)

(* An extraction that keeps a card whatever its fields. *)
ExtractCardUnchecked(c, index) ==
  << MkReview(ReviewId(CardDom[c], index), Trim(extractReviewerName(CardDom[c])),
              extractRatingFromCard(CardDom[c]),
              Trim(extractReviewTitle(CardDom[c])), Trim(extractReviewText(CardDom[c]))) >>

(***************************************************************************)
(* processSingleReviewCard after the cache check: the fields are           *)
(* extracted, the card is kept only with a name and a title or a body,     *)
(* and the record holds the trimmed fields.  << >> stands for null.        *)
(***************************************************************************)
ExtractCard(c, index) ==
  LET card == CardDom[c]
      reviewerName == extractReviewerName(card)
      rating == extractRatingFromCard(card)
      reviewTitle == extractReviewTitle(card)
      reviewText == extractReviewText(card)
  IN  IF Truthy(reviewerName) /\ (Truthy(reviewText) \/ Truthy(reviewTitle))
      THEN << MkReview(ReviewId(card, index), Trim(reviewerName), rating,
                       Trim(reviewTitle), Trim(reviewText)) >>
      ELSE << >>

(***************************************************************************)
(* The requested cap.  given = FALSE is "no maxReviews argument".          *)
(***************************************************************************)
Cap(given, n) == [given |-> given, n |-> n]

NoCap == Cap(FALSE, 0)

Caps == {NoCap} \cup {Cap(TRUE, n) : n \in 0..MaxCap}

(* JavaScript truthiness of maxReviews: undefined and 0 are falsy.         *)
CapTruthy(m) == m.given /\ m.n # 0

(* "!maxReviews || allReviews.length < maxReviews"                         *)
UnderCap(m, len) == ~CapTruthy(m) \/ len < m.n

(* A loop that is left after every page. *)
CapReachedAlways(m, len) == TRUE

(* "maxReviews && allReviews.length >= maxReviews"                         *)
CapReached(m, len) == CapTruthy(m) /\ len >= m.n

(***************************************************************************)
(* extractAllReviewsWithPagination, lines 336-344: the page's reviews are  *)
(* added in order, each only under the cap and only if its id is new.      *)
(***************************************************************************)
HasId(all, id) == \E k \in 1..Len(all) : all[k].id = id

(* A merge that does not look for the id among the collected reviews. *)
RECURSIVE AddPageNoDedup(_, _, _)
AddPageNoDedup(all, page, m) ==
  IF page = << >> THEN all
  ELSE AddPageNoDedup(IF UnderCap(m, Len(all)) THEN Append(all, Head(page)) ELSE all,
                      Tail(page), m)

RECURSIVE AddPage(_, _, _)
AddPage(all, page, m) ==
  IF page = << >> THEN all
  ELSE AddPage(IF UnderCap(m, Len(all)) /\ ~HasId(all, Head(page).id)
               THEN Append(all, Head(page))
               ELSE all,
               Tail(page), m)

(***************************************************************************)
(* ScrapingResult.  error = "" stands for a result without error member.   *)
(***************************************************************************)
MkResult(url, total, revs, error) ==
  [url |-> url, totalReviews |-> total, scrapedReviews |-> Len(revs),
   reviews |-> revs, error |-> error]

(* A failedResult without its error member. *)
FailedResultNoError(url, message) == MkResult(url, 0, << >>, "")

(* scrapeMultipleUrls, lines 67-74 *)
FailedResult(url, message) == MkResult(url, 0, << >>, message)

NavigationError == "page.goto: Timeout 60000ms exceeded"

(* scrapeReviews, line 97 *)
NotInitializedError == "Browser not initialized. Call initialize() first."

(* TripAdvisorScraper, lines 8-10: the values of the fields as constructed. *)
NoBrowser == "null"

NoPage == "null"

NoProfileId == "null"

(* A scrapeReviews that does not look at this.page. *)
InitializedAlways(p) == TRUE

(* scrapeReviews, line 96: if (!this.page) throw *)
Initialized(p) == p # NoPage

(***************************************************************************)
(* The remote listing of a URL: its pages in order, each with its cards    *)
(* and its pagination layout ("unknown" until navigateToNextPage looks at   *)
(* it).  A page is fixed the first time it is shown, its layout the first  *)
(* time it is looked at; both are the same on every later visit.  A page   *)
(* the browser passed through without extracting it has shown = FALSE.     *)
(***************************************************************************)
PagesUpTo(kinds, n) == UNION {[1..k -> kinds] : k \in 0..n}

MkPage(cards, next, shown) == [cards |-> cards, next |-> next, shown |-> shown]

(***************************************************************************)
(* extractReviews: the card locator.  The thirteen selectors in the order  *)
(* of the array and the five selectors tried inside a container.  A        *)
(* structure says what each selector matches on a page: "cards" (the       *)
(* review cards of the page), "first" (the first of them only), "stale"    *)
(* (the first of them, detached before it is read), "wrapper" (the         *)
(* element with id "tab-review-content"), "filters" (a div around the      *)
(* filter bar and the list), "throws" (the query throws); a selector a     *)
(* structure does not name matches nothing.                                *)
(***************************************************************************)
reviewCardSelectors ==
  << "reviewid", "testTarget", "container", "tabSvg", "tabProfile", "tabWrote",
     "tabDivDiv", "tabClass", "tabDiv", "class", "column", "article", "idReview" >>

innerSelectors == << "divDivClass", "divDiv", "div", "automation", "uiColumn" >>

PageDom ==
  [st \in {"sPlain", "sFlat", "sLate", "sWrapped", "sFilters", "sSolo", "sStale",
            "sNone"} |->
     CASE st = "sPlain"   -> [sel |-> ("reviewid" :> "cards"),
                              inner |-> ("div" :> "cards")]
       [] st = "sFlat"    -> [sel |-> ("reviewid" :> "cards" @@ "class" :> "wrapper"
                                        @@ "idReview" :> "wrapper"),
                              inner |-> ("divDiv" :> "cards")]
       [] st = "sLate"    -> [sel |-> ("testTarget" :> "throws" @@ "tabSvg" :> "cards"
                                        @@ "tabDiv" :> "first" @@ "idReview" :> "wrapper"),
                              inner |-> ("div" :> "cards")]
       [] st = "sWrapped" -> [sel |-> ("tabWrote" :> "throws" @@ "class" :> "wrapper"
                                        @@ "article" :> "cards"),
                              inner |-> ("divDiv" :> "cards" @@ "div" :> "first")]
       [] st = "sFilters" -> [sel |-> ("tabProfile" :> "filters" @@ "tabDivDiv" :> "cards"),
                              inner |-> ("divDivClass" :> "throws" @@ "divDiv" :> "first"
                                          @@ "div" :> "cards" @@ "uiColumn" :> "cards")]
       [] st = "sSolo"    -> [sel |-> ("idReview" :> "wrapper"),
                              inner |-> ("divDiv" :> "throws" @@ "div" :> "first")]
       [] st = "sStale"   -> [sel |-> ("reviewid" :> "stale" @@ "tabDivDiv" :> "cards"),
                              inner |-> ("div" :> "cards")]
       [] OTHER           -> [sel |-> ("container" :> "throws"),
                              inner |-> ("div" :> "cards")]]

StructureNames == DOMAIN PageDom

DefaultStructures == {"sPlain"}

Kind(f, name) == IF name \in DOMAIN f THEN f[name] ELSE "none"

(* The elements a query of the given kind matches on a page of cards pg. *)
Elements(kind, pg) ==
  CASE kind = "cards" -> pg
    [] kind \in {"first", "stale"} -> SubSeq(pg, 1, IF Len(pg) > 0 THEN 1 ELSE 0)
    [] kind = "wrapper" -> << "cT" >>
    [] kind = "filters" -> << "cF" >>
    [] OTHER -> << >>

(* extractReviews, line 443: the single match is the container. *)
IsContainer(e) ==
  CardDom[e].idAttr = "tab-review-content" \/ CardDom[e].textKey = "FiltersEnglish"

(* A child query is kept as soon as it matches anything. *)
InnerAny(n) == n > 0

(* extractReviews, line 458: a child query is kept when it matches more    *)
(* than one element.                                                       *)
InnerEnough(n) == n > 1

(* extractReviews, lines 455-466: the child selectors in order; a query    *)
(* that throws is skipped.  The result is the index of the query kept (0   *)
(* when none is) and the indices of the queries made.                      *)
RECURSIVE TryInner(_, _, _, _)
TryInner(c, dom, pg, tried) ==
  IF c > Len(innerSelectors) THEN [inner |-> 0, tried |-> tried]
  ELSE LET kind == Kind(dom.inner, innerSelectors[c])
       IN  IF kind # "throws" /\ InnerEnough(Len(Elements(kind, pg)))
           THEN [inner |-> c, tried |-> tried \cup {c}]
           ELSE TryInner(c + 1, dom, pg, tried \cup {c})

NoLocate == [structure |-> "none", page |-> << >>, evaluated |-> {}, winner |-> 0,
             inner |-> 0, tried |-> {}, cards |-> << >>]

(* extractReviews, lines 402-490: the selectors in order.  A query that    *)
(* throws or matches nothing is passed over; so is a single match whose    *)
(* id or text cannot be read (the throw reaches the catch of line 486).    *)
RECURSIVE TryCardSelectors(_, _, _, _, _)
TryCardSelectors(k, st, dom, pg, evaluated) ==
  IF k > Len(reviewCardSelectors)
  THEN [structure |-> st, page |-> pg, evaluated |-> evaluated, winner |-> 0,
        inner |-> 0, tried |-> {}, cards |-> << >>]
  ELSE LET kind == Kind(dom.sel, reviewCardSelectors[k])
           cards == Elements(kind, pg)
           seen == evaluated \cup {k}
           won(in, cs) == [structure |-> st, page |-> pg, evaluated |-> seen,
                           winner |-> k, inner |-> in.inner, tried |-> in.tried,
                           cards |-> cs]
           none == [inner |-> 0, tried |-> {}]
       IN  IF kind = "throws" \/ Len(cards) = 0 THEN TryCardSelectors(k + 1, st, dom, pg, seen)
           ELSE IF Len(cards) = 1
           THEN IF kind = "stale" THEN TryCardSelectors(k + 1, st, dom, pg, seen)
                ELSE IF IsContainer(cards[1])
                THEN LET in == TryInner(1, dom, pg, {})
                     IN  IF in.inner > 0
                         THEN won(in, Elements(Kind(dom.inner, innerSelectors[in.inner]), pg))
                         ELSE won(in, cards)
                ELSE won(none, cards)
           ELSE won(none, cards)

locateCards(st, pg) == TryCardSelectors(1, st, PageDom[st], pg, {})

(***************************************************************************)
(* navigateToNextPage.  The seven selectors in the order of the array, and *)
(* what the first element matching each is on a page: "none" (no visible   *)
(* match), "disabled" (a disabled attribute), "nohref" (visible, enabled,  *)
(* without href) or "link".  The layouts are the paginations a listing     *)
(* page may carry.                                                         *)
(***************************************************************************)
nextPageSelectors == << "arrow", "aria", "IGLCo", "text", "offset", "last", "svg" >>

El(s1, e1, s2, e2) ==
  [s \in {nextPageSelectors[k] : k \in DOMAIN nextPageSelectors} |->
      IF s = s1 THEN e1 ELSE IF s = s2 THEN e2 ELSE "none"]

NavDom ==
  [nNone     |-> El("arrow", "none", "aria", "none"),
   nDisabled |-> El("arrow", "disabled", "aria", "none"),
   nNoHref   |-> El("arrow", "nohref", "aria", "none"),
   nArrow    |-> El("arrow", "link", "aria", "none"),
   nText     |-> El("aria", "disabled", "text", "link"),
   nBoth     |-> El("arrow", "link", "last", "link")]

LayoutNames == DOMAIN NavDom

(* The layouts of a last page: no selector finds a link to click. *)
EndLayouts ==
  {n \in LayoutNames : \A k \in DOMAIN nextPageSelectors :
                          NavDom[n][nextPageSelectors[k]] # "link"}

DefaultLayouts == {"nArrow", "nNone"}

(* What Promise.all([waitForLoadState, click]) does: both resolve; the     *)
(* click lands and the wait rejects (time-out); the click itself rejects   *)
(* and the page stays.                                                     *)
ClickOutcomes == {"ok", "waitFailed", "clickFailed"}

(* The selector loop, lines 937-971, from selector k on the page at: an    *)
(* element that is not a link with href is passed over; a click that       *)
(* resolves returns true; a rejection is caught and the loop goes on with  *)
(* the next selector, on the page the browser is then on.  lay gives the   *)
(* layout of each page, outs the outcome of each click in turn.            *)
RECURSIVE TrySelectors(_, _, _, _, _, _)
TrySelectors(k, at, clicks, attempts, lay, outs) ==
  IF k > Len(nextPageSelectors)
  THEN [result |-> FALSE, to |-> at, clicks |-> clicks, attempts |-> attempts]
  ELSE IF NavDom[lay[at]][nextPageSelectors[k]] # "link"
  THEN TrySelectors(k + 1, at, clicks, attempts, lay, outs)
  ELSE LET o == IF attempts < Len(outs) THEN outs[attempts + 1] ELSE "ok"
       IN  IF o = "ok"
           THEN [result |-> TRUE, to |-> at + 1, clicks |-> clicks + 1,
                 attempts |-> attempts + 1]
           ELSE IF o = "waitFailed"
           THEN TrySelectors(k + 1, at + 1, clicks + 1, attempts + 1, lay, outs)
           ELSE TrySelectors(k + 1, at, clicks, attempts + 1, lay, outs)

navigateToNextPage(at, lay, outs) == TrySelectors(1, at, 0, 0, lay, outs)

NoNav == [from |-> 0, result |-> FALSE, to |-> 0, clicks |-> 0, attempts |-> 0]

(* The pages of a listing once the layouts of pages lo..hi have been       *)
(* looked at.                                                              *)
Consult(pages, lay, lo, hi) ==
  [p \in 1..(IF hi > Len(pages) THEN hi ELSE Len(pages)) |->
      IF p > Len(pages) THEN MkPage(<< >>, lay[p], FALSE)
      ELSE IF p >= lo /\ p <= hi THEN [pages[p] EXCEPT !.next = lay[p]]
      ELSE pages[p]]

(* The reviews a store holds after an earlier run over cA, cB and cC. *)
EarlierReviews ==
  LET a == ExtractCard("cA", 1)[1]
      b == ExtractCard("cB", 2)[1]
      c == ExtractCard("cC", 3)[1]
  IN  Put(Put(Put(NoReviews, a.id, a), b.id, b), c.id, c)

EarlierFile == MkFile("object", TRUE, EarlierReviews, "U1", EarlierDate)

InitFiles == {AbsentFile, GarbageFile, NullFile, EmptyObjectFile, EarlierFile}

VARIABLES
  urls,         \* main: the listing URLs of the run
  maxReviews,   \* main: the requested cap
  disk,         \* cache directory: store key -> file
  pc,           \* position of the run
  i,            \* scrapeMultipleUrls: index of the current URL
  allResults,   \* scrapeMultipleUrls: results so far (main: results)
  cache,        \* TripAdvisorScraper.cache
  allReviews,   \* extractAllReviewsWithPagination: collected reviews
  currentPage,  \* extractAllReviewsWithPagination: page number
  reviewCards,  \* extractReviews: card handles of the page
  batchLo,      \* processReviewCardsInParallel: first card of the batch
  cardPc,       \* processSingleReviewCard: position of each call
  cardRes,      \* processSingleReviewCard: settled value of each call
  pageReviews,  \* processReviewCardsInParallel: reviews
  remote,       \* the site: URL -> pages shown so far
  site,         \* the kinds of card the site shows
  budget,       \* cards the site may still show on new pages
  pageLimit,    \* pages a listing of the site may have
  inserted,     \* history: ids newly put into the cache in this session
  stagnant,     \* history: pages in a row that added no review
  produced,     \* history: store key -> ids the sessions produced
  disk0,        \* history: the store before the run
  snap,         \* history: URL -> review map at the end of its last session
  lastLoad,     \* history: the last ReviewCache construction
  clock,        \* the date: new Date()
  saved,        \* history: store key -> the CacheData of its last saveCache
  opened,       \* history: per ReviewCache constructed, its URL and its store file
  cmds,         \* the cache commands run one after the other (main, "cache")
  cmdNo,        \* the number of the next cache command
  stats,        \* history: what the last "cache stats" got from getStats
  cleared,      \* history: keys on which a "cache clear" has run
  fs,           \* the file system under the cache directory
  exports,      \* history: what main has handed to exporter.exportAll
  maxReviewsPerPage, \* config.scraper.maxReviewsPerPage
  idOf,         \* history: card -> the ids processSingleReviewCard gave it
  outcomes,     \* history: per finished session, what it returned
  loc,          \* the browser: number of the page it is on
  layouts,      \* the pagination layouts the site uses
  clickOutcomes, \* what a click on a next-page link may do
  lastNav,      \* history: the last call of navigateToNextPage
  failBudget,   \* card extractions that may still throw
  failed,       \* history: cards of the page whose extraction threw
  active,       \* history: indices of the sessions under way
  structures,   \* the page structures the site uses
  lastLocate,   \* history: the last run of the card locator
  browser,      \* TripAdvisorScraper.browser
  page,         \* TripAdvisorScraper.page
  profileId,    \* TripAdvisorScraper.profileId
  profile       \* AdsPower: the state of the browser profile of the run

progVars == <<urls, maxReviews, disk, pc, i, allResults, cache, allReviews,
              currentPage, reviewCards, batchLo, cardPc, cardRes, pageReviews>>

envVars == <<remote, site, budget, pageLimit, clock>>

histVars == <<inserted, stagnant, produced, disk0, snap, lastLoad, outcomes>>

cmdVars == <<cmds, cmdNo, stats, cleared>>

navVars == <<loc, lastNav>>

domVars == <<structures, lastLocate>>

browserVars == <<browser, page, profileId, profile>>

sessVars == <<navVars, layouts, clickOutcomes, domVars, browserVars, failBudget, failed, active>>

frameVars == <<saved, opened, cmdVars, fs, exports, maxReviewsPerPage>>

runVars == <<frameVars, sessVars>>

auxVars == <<runVars, idOf>>

vars == <<progVars, envVars, histVars, auxVars>>

UrlLists(n) == UNION {[1..k -> URLs] : k \in 1..n}

NoStats == [url |-> "none", total |-> 0, lastUpdated |-> NoDate, hotelUrl |-> Undefined]

NoLoad == [url |-> "none", file |-> AbsentFile, threw |-> FALSE, warned |-> FALSE,
           cache |-> NoCache]

InitCore(us, m, f, kinds, b, p, io, perPage, lays, outs, fb) ==
  /\ urls = us
  /\ lastLocate = NoLocate
  /\ loc = 1
  /\ layouts = lays
  /\ clickOutcomes = outs
  /\ lastNav = NoNav
  /\ failBudget = fb
  /\ failed = {}
  /\ active = {}
  /\ maxReviewsPerPage = perPage
  /\ fs = io
  /\ exports = << >>
  /\ idOf = [c \in DOMAIN CardDom |-> {}]
  /\ maxReviews = m
  /\ disk = [k \in Keys |-> IF k = hashUrl("U1") THEN f ELSE AbsentFile]
  /\ i = 1
  /\ allResults = << >>
  /\ cache = NoCache
  /\ allReviews = << >>
  /\ currentPage = 1
  /\ reviewCards = << >>
  /\ batchLo = 1
  /\ cardPc = << >>
  /\ cardRes = << >>
  /\ pageReviews = << >>
  /\ remote = [u \in URLs |-> << >>]
  /\ site = kinds
  /\ budget = b
  /\ pageLimit = p
  /\ clock = FirstDate
  /\ inserted = {}
  /\ stagnant = 0
  /\ produced = [k \in Keys |-> {}]
  /\ disk0 = disk
  /\ snap = [u \in URLs |-> << >>]
  /\ lastLoad = NoLoad
  /\ outcomes = << >>
  /\ saved = [k \in Keys |-> NoCache]
  /\ opened = {}
  /\ cmdNo = 1
  /\ stats = NoStats
  /\ cleared = {}

(* The scraper after a successful initialize: the profile is open, the    *)
(* browser connected, the page made; this.profileId is as constructed.     *)
Connected ==
  /\ browser = "browser"
  /\ page = "page"
  /\ profileId = NoProfileId
  /\ profile = "open"
  /\ pc = "start"

(* An initialized scraper on a site whose review cards carry data-reviewid. *)
InitEnv(us, m, f, kinds, b, p, io, perPage, lays, outs, fb) ==
  /\ InitCore(us, m, f, kinds, b, p, io, perPage, lays, outs, fb)
  /\ structures = DefaultStructures
  /\ Connected

(* A site with a next-page arrow or none, whose clicks succeed and whose   *)
(* cards can all be read.                                                  *)
InitBase(us, m, f, kinds, b, p, io, perPage) ==
  InitEnv(us, m, f, kinds, b, p, io, perPage, DefaultLayouts, {"ok"}, 0)

(* A scraping run: no cache command. *)
InitWith(us, m, f, kinds, b, p) ==
  InitBase(us, m, f, kinds, b, p, SoundFs, DefaultMaxReviewsPerPage) /\ cmds = << >>

(* One session (main with a single URL), any cap, any store. *)
Init ==
  \E m \in Caps, f \in InitFiles : InitWith(<< "U1" >>, m, f, CardNames, MaxCards, MaxPages)

(* Runs over one or two URLs, the same listing possibly twice. *)
RerunCaps == {NoCap, Cap(TRUE, 1)}

RerunFiles == {AbsentFile, EarlierFile}

RerunKinds == {"cA", "cA2"}

InitRerun ==
  \E us \in UrlLists(RerunUrls), m \in RerunCaps, f \in RerunFiles :
     InitWith(us, m, f, RerunKinds, RerunCards, RerunPages)

(* Batches of up to MaxUrls URLs over short listings. *)
UrlFiles == {AbsentFile, NullFile}

UrlKinds == {"cA", "cX"}

InitUrls ==
  \E us \in UrlLists(MaxUrls), f \in UrlFiles :
     InitWith(us, NoCap, f, UrlKinds, UrlCards, UrlPages)

(* The re-run scenario: three reviews cached, a cap of 2. *)
InitScenario ==
  InitWith(<< "U1" >>, Cap(TRUE, 2), EarlierFile, CardNames, ScenarioCards, ScenarioPages)

(* Runs of "cache stats <url>" and "cache clear <url>" over any store. *)
Cmds == [action : {"stats", "clear"}, url : AllUrls]

CmdLists(n) == UNION {[1..k -> Cmds] : k \in 1..n}

CacheFiles == {AbsentFile, GarbageFile, EarlierFile}

InitCache ==
  \E cs \in CmdLists(MaxCmds), f \in CacheFiles :
     InitBase(<< >>, NoCap, f, {}, 0, 0, SoundFs, DefaultMaxReviewsPerPage) /\ cmds = cs

(* Scraping runs over a file system that may fail: a cache directory that *)
(* is missing and cannot be made, store files that cannot be read or       *)
(* written.  Without the directory there is no store file.                 *)
IoFs == {MkFs(d, r, w) : d \in {"exists", "creatable", "uncreatable"}, r \in BOOLEAN,
                         w \in BOOLEAN}

IoFiles == {AbsentFile, EarlierFile}

IoKinds == {"cA", "cB"}

InitIo ==
  \E us \in UrlLists(IoUrls), io \in IoFs, f \in IoFiles :
     /\ io.dir # "exists" => f = AbsentFile
     /\ InitBase(us, NoCap, f, IoKinds, IoCards, IoPages, io, DefaultMaxReviewsPerPage)
     /\ cmds = << >>

(* One session under a MAX_REVIEWS_PER_PAGE setting, with or without a     *)
(* maximum on the command line.                                            *)
PerPageValues == (1..MaxPerPage) \cup {DefaultMaxReviewsPerPage}

ConfigKinds == {"cA", "cB", "cC"}

InitConfig ==
  \E m \in Caps, perPage \in PerPageValues :
     /\ InitBase(<< "U1" >>, m, AbsentFile, ConfigKinds, ConfigCards, ConfigPages, SoundFs,
                 perPage)
     /\ cmds = << >>

(* One session over a listing whose pages carry any of the pagination      *)
(* layouts and whose next-page clicks may reject.                          *)
NavKinds == {"cA"}

NavCaps == {NoCap, Cap(TRUE, 1)}

InitNav ==
  \E m \in NavCaps :
     /\ InitEnv(<< "U1" >>, m, AbsentFile, NavKinds, NavCards, NavPages, SoundFs,
                DefaultMaxReviewsPerPage, LayoutNames, ClickOutcomes, 0)
     /\ cmds = << >>

(* One session over a page of more cards than one batch holds, each card   *)
(* with an id of its own.                                                  *)
BatchKinds == {"cG"}

InitBatch ==
  InitWith(<< "U1" >>, NoCap, AbsentFile, BatchKinds, BatchCards, 1)

(* One session on a site whose pages have any of the structures. *)
LocateKinds == {"cA", "cB"}

InitLocate ==
  /\ InitCore(<< "U1" >>, NoCap, AbsentFile, LocateKinds, LocateCards, 1, SoundFs,
              DefaultMaxReviewsPerPage, DefaultLayouts, {"ok"}, 0)
  /\ structures = StructureNames
  /\ Connected
  /\ cmds = << >>

(* A run from its beginning, over one or two URLs and a cache directory    *)
(* that does not exist yet: main, which calls initialize first, or a       *)
(* caller of the scraper that calls scrapeReviews or scrapeMultipleUrls    *)
(* without having called initialize.                                       *)
MainKinds == {"cA"}

InitMain ==
  /\ \E us \in UrlLists(MainUrls) :
       InitCore(us, NoCap, AbsentFile, MainKinds, MainCards, 1, MkFs("creatable", TRUE, TRUE),
                DefaultMaxReviewsPerPage, DefaultLayouts, {"ok"}, 0)
  /\ structures = DefaultStructures
  /\ browser = NoBrowser
  /\ page = NoPage
  /\ profileId = NoProfileId
  /\ profile = "stopped"
  /\ pc \in {"init", "start"}
  /\ cmds = << >>

(* One session over a page of cards whose reviewer names sit in different  *)
(* places: the profile link, the "wrote a review" line, other spans.       *)
NameKinds == {"cA", "cC", "cW", "cL", "cS"}

InitNames ==
  InitWith(<< "U1" >>, NoCap, AbsentFile, NameKinds, NameCards, 1)

(* One session in which the calls on up to MaxFailures cards throw: over a *)
(* page of more cards than one batch holds, all of them cached by an       *)
(* earlier run, or over a short page of cards not yet cached.              *)
FailKinds == {"cA"}

InitFail ==
  /\ \/ InitEnv(<< "U1" >>, NoCap, EarlierFile, FailKinds, BatchCards, 1, SoundFs,
                DefaultMaxReviewsPerPage, DefaultLayouts, {"ok"}, MaxFailures)
     \/ InitEnv(<< "U1" >>, NoCap, AbsentFile, FailKinds, FailCards, 1, SoundFs,
                DefaultMaxReviewsPerPage, DefaultLayouts, {"ok"}, MaxFailures)
  /\ cmds = << >>

(***************************************************************************)
(* End of a session.  In a batch (scrapeMultipleUrls) the result, or the   *)
(* failedResult built in the catch block, is pushed and the loop goes on   *)
(* with the next URL.  With one URL main calls scrapeReviews itself: the   *)
(* result is kept, an error ends the process with status 1.                *)
(***************************************************************************)
(* A failure that ends the run whatever the number of URLs. *)
AfterFailureAbort(n, idx) == "exit1"

(* Where the run goes after a failed session: main's catch block exits     *)
(* with status 1 (one URL); scrapeMultipleUrls goes on with the next URL   *)
(* and returns after the last one.                                         *)
AfterFailure(n, idx) ==
  IF n = 1 THEN "exit1" ELSE IF idx < n THEN "start" ELSE "done"

(* scrapeReviews is entered for URL idx: its session is under way. *)
Enter(act, idx) == act \cup {idx}

(* A session that stays under way after its end. *)
LeaveNone(act, idx) == act

(* scrapeReviews returns or throws for URL idx: its session is over. *)
Leave(act, idx) == act \ {idx}

(* scrapeMultipleUrls, lines 58-62: whether randomDelay(3000, 6000) runs    *)
(* after the session of URL idx of n: in the try block, after the result   *)
(* has been pushed, when another URL follows.  Outside a batch there is    *)
(* none.                                                                   *)
Cooldown(ok, idx, n) == n > 1 /\ ok /\ idx < n

EndSession(result, ok) ==
  /\ active' = Leave(active, i)
  /\ outcomes' = Append(outcomes, [ok |-> ok, url |-> urls[i], reviews |-> result.reviews,
                                    error |-> result.error,
                                    cooldown |-> Cooldown(ok, i, Len(urls))])
  /\ IF Len(urls) = 1
     THEN /\ i' = i
          /\ allResults' = IF ok THEN << result >> ELSE allResults
          /\ pc' = IF ok THEN "done" ELSE AfterFailure(Len(urls), i)
     ELSE /\ i' = i + 1
          /\ allResults' = Append(allResults, result)
          /\ pc' = IF ok THEN (IF i < Len(urls) THEN "start" ELSE "done")
                    ELSE AfterFailure(Len(urls), i)

(* scrapeReviews, lines 95-103: without a page the call throws at once;    *)
(* otherwise the cache of the listing is constructed.                      *)
ScrapeReviewsBegin ==
  /\ pc = "start"
  /\ LET u == urls[i]
         ld == NewReviewCache(u, disk, clock, fs)
     IN  IF Initialized(page)
         THEN /\ lastLoad' = [url |-> u, file |-> disk[hashUrl(u)], threw |-> ld.threw,
                              warned |-> ld.warned, cache |-> ld.cache]
              /\ opened' = opened \cup {[url |-> u, cacheFile |-> ld.cache.cacheFile]}
              /\ IF ld.threw
                 THEN /\ cache' = cache
                      /\ EndSession(FailedResult(u, ld.error), FALSE)
                 ELSE /\ cache' = ld.cache
                      /\ pc' = "goto"
                      /\ active' = Enter(active, i)
                      /\ UNCHANGED <<i, allResults, outcomes>>
              /\ inserted' = {}
              /\ stagnant' = 0
              /\ clock' = clock + 1
              /\ fs' = ensureCacheDir(fs)
         ELSE /\ EndSession(FailedResult(u, NotInitializedError), FALSE)
              /\ UNCHANGED <<lastLoad, opened, cache, inserted, stagnant, clock, fs>>
  /\ UNCHANGED <<navVars, layouts, clickOutcomes, domVars, browserVars, failBudget, failed, saved, cmdVars, exports, maxReviewsPerPage, idOf, urls, maxReviews, disk, allReviews, currentPage, reviewCards,
                 batchLo, cardPc, cardRes, pageReviews, remote, site, budget, pageLimit,
                 produced, disk0, snap>>

(* scrapeReviews, lines 107-126: page.goto succeeds or throws; on success  *)
(* extractAllReviewsWithPagination starts and tests its loop condition.    *)
Goto ==
  /\ pc = "goto"
  /\ \E ok \in BOOLEAN :
       IF ok
       THEN /\ allReviews' = << >>
            /\ currentPage' = 1
            /\ loc' = 1
            /\ lastNav' = NoNav
            /\ pc' = IF UnderCap(maxReviews, 0) THEN "extract" ELSE "save"
            /\ UNCHANGED <<i, allResults, outcomes, active>>
       ELSE /\ EndSession(FailedResult(urls[i], NavigationError), FALSE)
            /\ UNCHANGED <<allReviews, currentPage, navVars>>
  /\ UNCHANGED <<frameVars, idOf, layouts, clickOutcomes, domVars, browserVars, failBudget, failed, urls, maxReviews, disk, cache, reviewCards, batchLo, cardPc, cardRes,
                 pageReviews, envVars, inserted, stagnant, produced, disk0, snap, lastLoad>>

(* A page without cards that ends the run. *)
AfterLocateAbort(n) == IF n = 0 THEN "exit1" ELSE "cards"

(* extractReviews, lines 492-503: with no card found the page structure is *)
(* logged (debugPageStructure catches its own errors) and                  *)
(* processReviewCardsInParallel returns an empty list without a batch.     *)
AfterLocate(n) == IF n = 0 THEN "merge" ELSE "cards"

(* extractReviews, lines 373-500: the cards of the page the browser is on  *)
(* are located and processReviewCardsInParallel starts its first batch.    *)
ExtractReviews ==
  /\ pc = "extract"
  /\ LET u == urls[i]
         present == loc <= Len(remote[u])
         seen == present /\ remote[u][loc].shown
     IN  \E pg \in (IF seen THEN {remote[u][loc].cards} ELSE PagesUpTo(site, budget)),
            st \in structures :
           LET found == locateCards(st, pg) IN
           /\ remote' = IF seen THEN remote
                        ELSE IF present
                        THEN [remote EXCEPT ![u][loc] = MkPage(pg, @.next, TRUE)]
                        ELSE [remote EXCEPT ![u] = Append(@, MkPage(pg, "unknown", TRUE))]
           /\ budget' = IF seen THEN budget ELSE budget - Len(pg)
           /\ UNCHANGED <<site, pageLimit, clock>>
           /\ reviewCards' = found.cards
           /\ lastLocate' = found
           /\ batchLo' = 1
           /\ cardPc' = [j \in 1..Len(found.cards) |-> "idle"]
           /\ cardRes' = [j \in 1..Len(found.cards) |-> << >>]
           /\ pageReviews' = << >>
           /\ pc' = AfterLocate(Len(found.cards))
  /\ failed' = {}
  /\ UNCHANGED <<frameVars, idOf, navVars, layouts, clickOutcomes, structures, browserVars, failBudget, active, urls, maxReviews, disk, i, allResults, cache, allReviews, currentPage,
                 histVars>>

(* Every card of the page at once. *)
InBatchAll(j) == j <= Len(reviewCards)

(* processReviewCardsInParallel, lines 513-514: the cards of the batch. *)
InBatch(j) == j >= batchLo /\ j < batchLo + concurrencyLimit /\ j <= Len(reviewCards)

(* processSingleReviewCard, lines 613-616: a call on the card throws; the  *)
(* catch block makes the value of the card null.                           *)
CardThrows(j) ==
  /\ failBudget > 0
  /\ failBudget' = failBudget - 1
  /\ failed' = failed \cup {j}
  /\ cardRes' = [cardRes EXCEPT ![j] = << >>]
  /\ cardPc' = [cardPc EXCEPT ![j] = "settled"]

(* processSingleReviewCard, lines 556-578: the id, then the cache check.   *)
CardCheckCache(j) ==
  /\ pc = "cards"
  /\ InBatch(j)
  /\ cardPc[j] = "idle"
  /\ \/ /\ CardThrows(j)
        /\ UNCHANGED <<produced, idOf>>
     \/ /\ LET reviewId == ReviewId(CardDom[reviewCards[j]], j)
           IN  IF hasReview(cache, reviewId)
               THEN /\ cardRes' = [cardRes EXCEPT ![j] = << getReview(cache, reviewId) >>]
                    /\ cardPc' = [cardPc EXCEPT ![j] = "settled"]
                    /\ produced' = [produced EXCEPT ![cache.cacheFile] = @ \cup {reviewId}]
               ELSE /\ cardPc' = [cardPc EXCEPT ![j] = "extracting"]
                    /\ UNCHANGED <<cardRes, produced>>
        /\ idOf' = [idOf EXCEPT ![reviewCards[j]] =
                                     @ \cup {ReviewId(CardDom[reviewCards[j]], j)}]
        /\ UNCHANGED <<failBudget, failed>>
  /\ UNCHANGED <<frameVars, navVars, layouts, clickOutcomes, domVars, browserVars, active, urls, maxReviews, disk, pc, i, allResults, cache, allReviews,
                 currentPage, reviewCards, batchLo, pageReviews, envVars,
                 inserted, stagnant, disk0, snap, lastLoad, outcomes>>

(* processSingleReviewCard, lines 580-612: the fields have been extracted; *)
(* a valid review is added to the cache and returned, else null.           *)
CardExtracted(j) ==
  /\ pc = "cards"
  /\ InBatch(j)
  /\ cardPc[j] = "extracting"
  /\ \/ /\ CardThrows(j)
        /\ UNCHANGED <<cache, inserted, produced>>
     \/ /\ LET r == ExtractCard(reviewCards[j], j)
           IN  /\ cardRes' = [cardRes EXCEPT ![j] = r]
               /\ cardPc' = [cardPc EXCEPT ![j] = "settled"]
               /\ IF r # << >>
                  THEN /\ cache' = addReview(cache, r[1])
                       /\ inserted' = IF hasReview(cache, r[1].id) THEN inserted
                                      ELSE inserted \cup {r[1].id}
                       /\ produced' = [produced EXCEPT ![cache.cacheFile] =
                                                           @ \cup {r[1].id}]
                  ELSE UNCHANGED <<cache, inserted, produced>>
        /\ UNCHANGED <<failBudget, failed>>
  /\ UNCHANGED <<frameVars, idOf, navVars, layouts, clickOutcomes, domVars, browserVars, active, urls, maxReviews, disk, pc, i, allResults, allReviews,
                 currentPage, reviewCards, batchLo, pageReviews, envVars,
                 stagnant, disk0, snap, lastLoad, outcomes>>

(* A batch whose values are dropped from the first null on. *)
RECURSIVE FulfilledUntilFailure(_, _, _)
FulfilledUntilFailure(res, lo, hi) ==
  IF lo > hi \/ res[lo] = << >> THEN << >>
  ELSE res[lo] \o FulfilledUntilFailure(res, lo + 1, hi)

(* processReviewCardsInParallel, lines 529-548: the fulfilled, non-null    *)
(* values of the batch in card order.                                      *)
RECURSIVE Fulfilled(_, _, _)
Fulfilled(res, lo, hi) ==
  IF lo > hi THEN << >> ELSE res[lo] \o Fulfilled(res, lo + 1, hi)

Min(a, b) == IF a < b THEN a ELSE b

(* processReviewCardsInParallel, lines 526-551: the batch has settled; the *)
(* non-null values are pushed in card order, then the next batch starts or *)
(* the page's reviews are returned.                                        *)
BatchSettled ==
  /\ pc = "cards"
  /\ \A j \in 1..Len(reviewCards) : InBatch(j) => cardPc[j] = "settled"
  /\ pageReviews' = pageReviews \o
        Fulfilled(cardRes, batchLo, Min(batchLo + concurrencyLimit - 1, Len(reviewCards)))
  /\ IF batchLo + concurrencyLimit <= Len(reviewCards)
     THEN batchLo' = batchLo + concurrencyLimit /\ pc' = pc
     ELSE batchLo' = batchLo /\ pc' = "merge"
  /\ UNCHANGED <<auxVars, urls, maxReviews, disk, i, allResults, cache, allReviews, currentPage,
                 reviewCards, cardPc, cardRes, envVars, histVars>>

(* extractAllReviewsWithPagination, lines 330-357: the page is added to    *)
(* the collection; the loop is left when the cap is reached.               *)
MergePage ==
  /\ pc = "merge"
  /\ LET all == AddPage(allReviews, pageReviews, maxReviews)
         addedCount == Len(all) - Len(allReviews)
     IN  /\ allReviews' = all
         /\ stagnant' = IF addedCount = 0 THEN stagnant + 1 ELSE 0
         /\ pc' = IF CapReached(maxReviews, Len(all)) THEN "save" ELSE "navigate"
  /\ UNCHANGED <<auxVars, urls, maxReviews, disk, i, allResults, cache, currentPage, reviewCards,
                 batchLo, cardPc, cardRes, pageReviews, envVars,
                 inserted, produced, disk0, snap, lastLoad, outcomes>>

(* extractAllReviewsWithPagination, lines 360-366 and the loop test of     *)
(* line 325, with navigateToNextPage on the page the browser is on.  The   *)
(* layouts of the pages the call looks at are those seen before, or are    *)
(* fixed now; the last page of a listing has no link to click.  Up to      *)
(* MaxFailedClicks clicks of a call may reject.                            *)
NavigateToNextPage ==
  /\ pc = "navigate"
  /\ LET u == urls[i]
         hops == IF clickOutcomes = {"ok"} THEN 0 ELSE MaxFailedClicks
         last == Min(loc + hops, pageLimit)
         Choices(p) == IF p <= Len(remote[u]) /\ remote[u][p].next # "unknown"
                       THEN {remote[u][p].next}
                       ELSE IF p < pageLimit THEN layouts ELSE layouts \cap EndLayouts
     IN  \E lay \in [loc..last -> LayoutNames], outs \in [1..hops -> clickOutcomes] :
           /\ \A p \in loc..last : lay[p] \in Choices(p)
           /\ LET r == navigateToNextPage(loc, lay, outs)
                  hasMorePages == r.result
              IN  /\ remote' = [remote EXCEPT ![u] =
                                   Consult(@, lay, loc, IF r.result THEN r.to - 1 ELSE r.to)]
                  /\ loc' = r.to
                  /\ lastNav' = [from |-> loc, result |-> r.result, to |-> r.to,
                                 clicks |-> r.clicks, attempts |-> r.attempts]
                  /\ currentPage' = IF hasMorePages THEN currentPage + 1 ELSE currentPage
                  /\ pc' = IF hasMorePages /\ UnderCap(maxReviews, Len(allReviews))
                           THEN "extract" ELSE "save"
  /\ UNCHANGED <<frameVars, idOf, layouts, clickOutcomes, domVars, browserVars, failBudget, failed, active, urls,
                 maxReviews, disk, i, allResults, cache, allReviews, reviewCards,
                 batchLo, cardPc, cardRes, pageReviews, site, budget, pageLimit, clock,
                 histVars>>

(* scrapeReviews, lines 128-145: the cache is saved, the result returned.  *)
SaveAndReturn ==
  /\ pc = "save"
  /\ cache' = Stamp(cache, clock)
  /\ IF fs.write
     THEN /\ disk' = [disk EXCEPT ![cache.cacheFile] = saveCache(cache')]
          /\ saved' = [saved EXCEPT ![cache.cacheFile] = cache']
     ELSE UNCHANGED <<disk, saved>>
  /\ clock' = clock + 1
  /\ snap' = [snap EXCEPT ![urls[i]] = Append(@, cache.reviews)]
  /\ EndSession(MkResult(urls[i], getCachedReviewCount(cache), allReviews, ""), TRUE)
  /\ UNCHANGED <<urls, maxReviews, allReviews, currentPage, reviewCards, batchLo,
                 cardPc, cardRes, pageReviews, remote, site, budget, pageLimit,
                 inserted, stagnant, produced, disk0, lastLoad, opened, cmdVars, fs,
                 exports, maxReviewsPerPage, idOf, navVars, layouts, clickOutcomes, domVars, browserVars,
                 failBudget, failed>>

(* main, lines 177-184: the results are handed to exporter.exportAll, the  *)
(* single result as it is, those of a batch as an array; the export        *)
(* succeeds, or throws and main's catch block exits with status 1.         *)
Export ==
  /\ pc = "done"
  /\ exports' = Append(exports, [batch |-> Len(urls) > 1, results |-> allResults])
  /\ \E ok \in BOOLEAN : pc' = IF ok THEN "exported" ELSE "exit1"
  /\ UNCHANGED <<saved, opened, cmdVars, fs, maxReviewsPerPage, idOf, sessVars, urls,
                 maxReviews, disk, i, allResults, cache,
                 allReviews, currentPage, reviewCards, batchLo, cardPc, cardRes,
                 pageReviews, envVars, histVars>>

(* The SIGINT and SIGTERM handlers (main, lines 196-204): a signal that    *)
(* arrives while the run is under way ends the process with status 0.      *)
Signal ==
  /\ pc \in {"start", "goto", "extract", "cards", "merge", "navigate", "save"}
  /\ pc' = "exit0"
  /\ UNCHANGED <<auxVars, urls, maxReviews, disk, i, allResults, cache, allReviews,
                 currentPage, reviewCards, batchLo, cardPc, cardRes, pageReviews,
                 envVars, histVars>>

(***************************************************************************)
(* handleCacheCommand.  Each command is a run of its own: a ReviewCache is *)
(* constructed for the URL; when the constructor throws the run ends       *)
(* there.  "stats" reads getStats, "clear" empties the instance and saves  *)
(* it.                                                                     *)
(***************************************************************************)
CacheStats ==
  /\ cmdNo <= Len(cmds)
  /\ cmds[cmdNo].action = "stats"
  /\ LET u == cmds[cmdNo].url
         ld == NewReviewCache(u, disk, clock, fs)
     IN  /\ lastLoad' = [url |-> u, file |-> disk[hashUrl(u)], threw |-> ld.threw,
                         warned |-> ld.warned, cache |-> ld.cache]
         /\ opened' = opened \cup {[url |-> u, cacheFile |-> ld.cache.cacheFile]}
         /\ cache' = ld.cache
         /\ stats' = IF ld.threw THEN stats
                     ELSE [url |-> u] @@ getStats(ld.cache)
  /\ clock' = clock + 1
  /\ cmdNo' = cmdNo + 1
  /\ fs' = ensureCacheDir(fs)
  /\ UNCHANGED <<urls, maxReviews, disk, pc, i, allResults, allReviews, currentPage,
                 reviewCards, batchLo, cardPc, cardRes, pageReviews,
                 remote, site, budget, pageLimit, inserted, stagnant, produced, disk0,
                 snap, outcomes, saved, cmds, cleared, exports, maxReviewsPerPage, idOf,
                 sessVars>>

CacheClear ==
  /\ cmdNo <= Len(cmds)
  /\ cmds[cmdNo].action = "clear"
  /\ LET u == cmds[cmdNo].url
         ld == NewReviewCache(u, disk, clock, fs)
         c == Stamp(clearCache(ld.cache, clock + 1), clock + 2)
     IN  /\ lastLoad' = [url |-> u, file |-> disk[hashUrl(u)], threw |-> ld.threw,
                         warned |-> ld.warned, cache |-> ld.cache]
         /\ opened' = opened \cup {[url |-> u, cacheFile |-> ld.cache.cacheFile]}
         /\ IF ld.threw
            THEN /\ cache' = ld.cache
                 /\ UNCHANGED <<disk, saved, cleared>>
            ELSE /\ cache' = c
                 /\ IF fs.write
                    THEN /\ disk' = [disk EXCEPT ![c.cacheFile] = saveCache(c)]
                         /\ saved' = [saved EXCEPT ![c.cacheFile] = c]
                    ELSE UNCHANGED <<disk, saved>>
                 /\ cleared' = cleared \cup {c.cacheFile}
  /\ clock' = clock + 3
  /\ cmdNo' = cmdNo + 1
  /\ fs' = ensureCacheDir(fs)
  /\ UNCHANGED <<urls, maxReviews, pc, i, allResults, allReviews, currentPage,
                 reviewCards, batchLo, cardPc, cardRes, pageReviews,
                 remote, site, budget, pageLimit, inserted, stagnant, produced, disk0,
                 snap, outcomes, cmds, stats, exports, maxReviewsPerPage, idOf, sessVars>>

(***************************************************************************)
(* The browser of the run.  initialize (lines 13-37) opens the AdsPower    *)
(* profile, connects over CDP and makes a page; each of the three calls    *)
(* may throw, and the error is thrown on to main, whose catch block exits  *)
(* with status 1 (part_003 lines 186-188).  Its parameter profileId is     *)
(* never stored in this.profileId.                                         *)
(***************************************************************************)
InitializeOutcomes == {"ok", "openFails", "connectFails", "pageFails"}

Initialize ==
  /\ pc = "init"
  /\ \E o \in InitializeOutcomes :
       /\ profile' = IF o = "openFails" THEN profile ELSE "open"
       /\ browser' = IF o \in {"ok", "pageFails"} THEN "browser" ELSE browser
       /\ page' = IF o = "ok" THEN "page" ELSE page
       /\ pc' = IF o = "ok" THEN "start" ELSE "exit1"
  /\ UNCHANGED <<profileId, frameVars, idOf, navVars, layouts, clickOutcomes, domVars,
                 failBudget, failed, active, urls, maxReviews, disk, i, allResults, cache,
                 allReviews, currentPage, reviewCards, batchLo, cardPc, cardRes,
                 pageReviews, envVars, histVars>>

(* this.profileId refers to a profile: closeBrowser stops it               *)
(* (adpowerService.ts lines 75-78).                                        *)
closeBrowser(id, state) == IF id # NoProfileId THEN "stopped" ELSE state

(* cleanup (lines 1071-1086), run by the finally block of main (part_003   *)
(* lines 189-192) when the try block has completed: the browser connection *)
(* is closed, and the profile is stopped when this.profileId is set.       *)
Cleanup ==
  /\ pc = "exported"
  /\ pc' = "end"
  /\ browser' = NoBrowser
  /\ page' = IF browser # NoBrowser THEN NoPage ELSE page
  /\ profile' = closeBrowser(profileId, profile)
  /\ UNCHANGED <<profileId, frameVars, idOf, navVars, layouts, clickOutcomes, domVars,
                 failBudget, failed, active, urls, maxReviews, disk, i, allResults, cache,
                 allReviews, currentPage, reviewCards, batchLo, cardPc, cardRes,
                 pageReviews, envVars, histVars>>

Next ==
  \/ ScrapeReviewsBegin
  \/ Goto
  \/ ExtractReviews
  \/ \E j \in DOMAIN cardPc : CardCheckCache(j)
  \/ \E j \in DOMAIN cardPc : CardExtracted(j)
  \/ BatchSettled
  \/ MergePage
  \/ NavigateToNextPage
  \/ SaveAndReturn
  \/ Export
  \/ Signal

Spec == Init /\ [][Next]_vars

SpecRerun == InitRerun /\ [][Next]_vars

SpecUrls == InitUrls /\ [][Next]_vars

SpecScenario == InitScenario /\ [][Next]_vars

SpecIo == InitIo /\ [][Next]_vars

SpecConfig == InitConfig /\ [][Next]_vars

SpecNav == InitNav /\ [][Next]_vars

SpecBatch == InitBatch /\ [][Next]_vars

SpecFail == InitFail /\ [][Next]_vars

SpecNames == InitNames /\ [][Next]_vars

SpecLocate == InitLocate /\ [][Next]_vars

(* main: initialize, the run, cleanup. *)
NextMain ==
  \/ Initialize
  \/ Next
  \/ Cleanup

SpecMain == InitMain /\ [][NextMain]_vars

(* The steps of the program itself: every await of the run resolves or     *)
(* rejects (Playwright calls are bounded by their time-outs), and the      *)
(* event loop then runs the continuation.  A signal is up to the           *)
(* environment.                                                            *)
Step ==
  \/ ScrapeReviewsBegin
  \/ Goto
  \/ ExtractReviews
  \/ \E j \in DOMAIN cardPc : CardCheckCache(j)
  \/ \E j \in DOMAIN cardPc : CardExtracted(j)
  \/ BatchSettled
  \/ MergePage
  \/ NavigateToNextPage
  \/ SaveAndReturn
  \/ Export

SpecNavFair == InitNav /\ [][Next]_vars /\ WF_vars(Step)

(* main with the command "cache" *)
NextCache == CacheStats \/ CacheClear

SpecCache == InitCache /\ [][NextCache]_vars



(***************************************************************************)
(* Properties                                                              *)
(***************************************************************************)
Ids(revs) == {revs[k].id : k \in 1..Len(revs)}

DistinctIds(revs) ==
  \A a, b \in 1..Len(revs) : revs[a].id = revs[b].id => a = b

StoreIds(file) == IF file.kind = "object" /\ file.hasReviews THEN DOMAIN file.reviews ELSE {}

BetweenSessions == pc \in {"start", "done", "exit1"}

(* Ids of the reviews the pages shown so far for u yield when extracted. *)
PageIds(cards) ==
  {ExtractCard(cards[j], j)[1].id :
     j \in {x \in DOMAIN cards : ExtractCard(cards[x], x) # << >>}}

RemoteIds(u) == UNION {PageIds(remote[u][p].cards) : p \in DOMAIN remote[u]}

(* C1: for every requested cap N >= 0, N = 0 included, no returned result *)
(* lists more than N reviews.                                              *)
C1_CapNeverExceeded ==
  maxReviews.given =>
    \A k \in 1..Len(allResults) : Len(allResults[k].reviews) <= maxReviews.n

(* C2: the session stops within one more page visit after a page that     *)
(* added no new review: never do three pages in a row add nothing.         *)
C2_StagnationStops == stagnant <= 2

(* C3: the number of reviews a session newly puts into the cache stops     *)
(* growing once it has reached the cap N: it never exceeds N.              *)
C3_NewlyAddedStopsAtCap ==
  maxReviews.given => Cardinality(inserted) <= maxReviews.n

(* C4: every review in the cache, and in every store file, has a reviewer  *)
(* name and a title or a body.                                             *)
C4_OnlyValidReviewsCached ==
  /\ \A id \in DOMAIN cache.reviews : ValidReview(cache.reviews[id])
  /\ \A k \in Keys : \A id \in StoreIds(disk[k]) : ValidReview(disk[k].reviews[id])

C4_Witness ==
  /\ pc = "cards"
  /\ \E j \in DOMAIN cardPc :
       reviewCards[j] = "cX" /\ cardPc[j] = "settled" /\ cardRes[j] = << >>
  /\ inserted # {}

(* C5: between sessions the store of a listing on which a session has      *)
(* finished holds exactly one entry per identity of the union of what it   *)
(* held before the run and what the sessions on it produced.               *)
C5_StoreSizeIsUnion ==
  BetweenSessions =>
    \A u \in URLs :
      Len(snap[u]) >= 1 =>
        Cardinality(DOMAIN disk[hashUrl(u)].reviews) =
          Cardinality(StoreIds(disk0[hashUrl(u)]) \cup produced[hashUrl(u)])

C5_Witness ==
  /\ pc = "done"
  /\ Len(snap["U1"]) = 2
  /\ Len(outcomes) = 2
  /\ Ids(outcomes[1].reviews) \cap Ids(outcomes[2].reviews) # {}
  /\ StoreIds(disk0[hashUrl("U1")]) = {}
  /\ produced[hashUrl("U1")] # {}
  /\ Cardinality(DOMAIN disk[hashUrl("U1")].reviews) = Cardinality(produced[hashUrl("U1")])

(* C6: a second session on the same listing, the site unchanged, leaves    *)
(* the cache with the same id -> review map as the first one did.          *)
C6_RescrapeIdempotent ==
  \A u \in URLs : \A k \in 1..Len(snap[u]) : snap[u][k] = snap[u][1]

C6_Witness ==
  /\ pc = "done"
  /\ Len(snap["U1"]) = 2
  /\ Len(outcomes[2].reviews) >= 1
  /\ Cardinality(DOMAIN snap["U1"][2]) >= 2

(* C7: with 3 reviews cached, a cap of 2 and a site that now has 5         *)
(* reviews, the session returns 2 reviews; the cache total stays 3 when    *)
(* both are among the cached ones, and becomes 5 when neither is.          *)
C7_RerunScenario ==
  (/\ pc = "done"
   /\ Cardinality(RemoteIds("U1")) >= 2
   /\ Cardinality(StoreIds(disk0[hashUrl("U1")]) \cup RemoteIds("U1")) <= 5)
  => LET r == allResults[1]
         before == StoreIds(disk0[hashUrl("U1")])
     IN  /\ r.scrapedReviews = 2
         /\ Ids(r.reviews) \subseteq before => r.totalReviews = 3
         /\ Ids(r.reviews) \cap before = {} => r.totalReviews = 5

(* C8: a batch has one result per URL handled, in input order; a failed    *)
(* session's entry has an error, no reviews and scrapedReviews 0, and the  *)
(* entries of the other sessions hold what those sessions returned.        *)
C8_BatchResults ==
  Len(urls) >= 2 =>
    /\ Len(allResults) = i - 1
    /\ pc = "done" => Len(allResults) = Len(urls)
    /\ \A k \in 1..Len(allResults) :
         /\ allResults[k].url = urls[k]
         /\ outcomes[k].ok =>
              /\ allResults[k].error = ""
              /\ allResults[k].reviews = outcomes[k].reviews
         /\ ~outcomes[k].ok =>
              /\ allResults[k].error # ""
              /\ allResults[k].scrapedReviews = 0
              /\ allResults[k].reviews = << >>

C8_Witness ==
  /\ pc = "done"
  /\ Len(urls) = 3
  /\ outcomes[1].ok /\ ~outcomes[2].ok /\ outcomes[3].ok
  /\ allResults[1].reviews # << >>
  /\ allResults[3].reviews # << >>

(* C9: no returned or collected list of reviews holds an id twice.         *)
C9_ReturnedIdsDistinct ==
  /\ DistinctIds(allReviews)
  /\ \A k \in 1..Len(allResults) : DistinctIds(allResults[k].reviews)

C9_Witness ==
  /\ pc = "navigate"
  /\ Len(pageReviews) = 2
  /\ pageReviews[1].id = pageReviews[2].id
  /\ pageReviews[1] # pageReviews[2]
  /\ Len(allReviews) = 1

(* C10: constructing a ReviewCache over a corrupted store never throws:    *)
(* the cache is empty and keeps the listing URL it was constructed for.    *)
C10_CorruptStoreIsEmpty ==
  (lastLoad.url # "none" /\ Corrupt(lastLoad.file)) =>
    /\ ~lastLoad.threw
    /\ lastLoad.warned
    /\ DOMAIN lastLoad.cache.reviews = {}
    /\ lastLoad.cache.hotelUrl = lastLoad.url

C12_ClearThenStatsZero ==
  /\ \A k \in cleared : disk[k].kind = "object" /\ disk[k].hasReviews
                          /\ DOMAIN disk[k].reviews = {}
  /\ (cmdNo > 1 /\ cmds[cmdNo - 1].action = "clear" /\ ~lastLoad.threw) =>
        getStats(cache).total = 0
  /\ (cmdNo > 1 /\ cmds[cmdNo - 1].action = "stats" /\ ~lastLoad.threw
       /\ cache.cacheFile \in cleared) =>
        stats.total = 0 /\ stats.url = cmds[cmdNo - 1].url

C12_Witness ==
  /\ cmdNo = 3
  /\ cmds[1] = [action |-> "clear", url |-> "U1"]
  /\ cmds[2] = [action |-> "stats", url |-> "U3"]
  /\ DOMAIN disk0[hashUrl("U1")].reviews # {}
  /\ stats.total = 0
  /\ stats.lastUpdated = saved[hashUrl("U1")].lastUpdated

(* C15: any two ReviewCache instances constructed from the same URL, or    *)
(* from URLs with the same "d<digits>" listing identifier, have the same   *)
(* store file, in whichever run they were constructed.                     *)
SameListing(u, v) ==
  u = v \/ (UrlInfo[u].did # "" /\ UrlInfo[u].did = UrlInfo[v].did)

C13_PagesPersistedAtSignal ==
  pc = "exit0" =>
    Ids(allReviews) \subseteq StoreIds(disk[hashUrl(urls[i])])

(* C14: no session fails because of the cache directory or a store file:   *)
(* with well-formed stores, a session that does not return its result has  *)
(* failed to navigate.                                                     *)
C14_CacheIoFailureNotFatal ==
  \A k \in 1..Len(outcomes) : outcomes[k].error \in {"", NavigationError}

(* C16: a run over one URL whose session fails ends with status 1 and      *)
(* hands nothing to the exporter; a run over several URLs that ends        *)
(* otherwise than by a signal has handed the exporter one result per URL,  *)
(* each failed one with its error.                                         *)
C16_ExportAfterFailure ==
  /\ (Len(urls) = 1 /\ Len(outcomes) = 1 /\ ~outcomes[1].ok) =>
        pc = "exit1" /\ exports = << >>
  /\ (Len(urls) >= 2 /\ pc \in {"exported", "exit1"}) =>
        /\ Len(exports) = 1
        /\ exports[1].batch
        /\ Len(exports[1].results) = Len(urls)
        /\ \A k \in 1..Len(urls) :
             /\ exports[1].results[k].url = urls[k]
             /\ ~outcomes[k].ok => exports[1].results[k].error # ""

C16_Witness ==
  /\ pc = "exported"
  /\ Len(urls) = 3
  /\ ~outcomes[1].ok /\ outcomes[2].ok /\ ~outcomes[3].ok
  /\ exports[1].results[1].error = CacheLoadError
  /\ exports[1].results[3].error = NavigationError
  /\ exports[1].results[2].reviews # << >>

(* C17: without a maximum on the command line, no session returns more     *)
(* reviews than the MAX_REVIEWS_PER_PAGE setting.                          *)
C17_PerPageSettingLimits ==
  ~maxReviews.given =>
    \A k \in 1..Len(allResults) : Len(allResults[k].reviews) <= maxReviewsPerPage

(* C18: a card is given the same id on every visit, whatever its position  *)
(* on the page and whatever was extracted before it.                       *)
C18_IdStable ==
  \A c \in CardNames : Cardinality(idOf[c]) <= 1

(* C20: while the cards of a batch are processed, the review map of the    *)
(* cache changes only when no other card of the batch is still in flight.  *)
C20_CacheMutatedOnlyAfterBatch ==
  [][(pc = "cards" /\ cache'.reviews # cache.reviews) =>
       \A k \in DOMAIN cardPc : InBatch(k) => cardPc'[k] = "settled"]_vars

(* The rating as the data model states it: the first strategy whose value  *)
(* is in 1..5 wins, else 0.                                                *)
extractRatingFromCardChecked(card) ==
  LET a == FirstBubbleTitle(card.svgTitles)
      b == IF card.ariaTitle.bubble THEN card.ariaTitle.n ELSE NoMatch
  IN  IF a \in 1..5 THEN a
      ELSE IF b \in 1..5 THEN b
           ELSE IF card.filledBubbles > 0 /\ card.filledBubbles <= 5
                THEN card.filledBubbles ELSE 0

(* C19: every review the extractor has made of a card has a rating in     *)
(* 0..5: the value of the first rating strategy of the card that gives a   *)
(* value in 1..5, and 0 when none does.                                    *)
C19_RatingInRange ==
  \A j \in DOMAIN cardRes :
    (cardPc[j] = "settled" /\ cardRes[j] # << >>
     /\ cardRes[j] = ExtractCard(reviewCards[j], j)) =>
       /\ cardRes[j][1].rating \in 0..5
       /\ cardRes[j][1].rating = extractRatingFromCardChecked(CardDom[reviewCards[j]])


(* C21: navigateToNextPage returns true only onto a page that bears review *)
(* cards: the page extracted after a call that returned true has at least  *)
(* one card.                                                               *)
C21_AdvanceOnlyOntoCards ==
  (pc = "merge" /\ lastNav.result /\ lastNav.to = loc) => reviewCards # << >>

(* C22: one call of navigateToNextPage clicks at most one element and      *)
(* moves the browser by at most one page, whatever the post-click wait     *)
(* does.                                                                   *)
C22_OneClickPerCall ==
  lastNav.clicks <= 1 /\ lastNav.to - lastNav.from <= 1


(* C23: a session that has entered its page loop over a listing of         *)
(* finitely many pages returns a result (unless the process is signalled), *)
(* and the loop is left only with the cap reached or after                 *)
(* navigateToNextPage returned false.                                      *)
C23_SessionTerminates ==
  /\ [](pc = "save" =>
         \/ maxReviews.given /\ Len(allReviews) >= maxReviews.n
         \/ ~lastNav.result /\ lastNav.to = loc)
  /\ (pc = "extract") ~>
        (pc = "exit0" \/ (active = {} /\ outcomes # << >> /\ outcomes[Len(outcomes)].ok))

C23_Witness ==
  /\ pc = "done"
  /\ outcomes # << >> /\ outcomes[1].ok
  /\ ~lastNav.result /\ lastNav.from >= 2 /\ lastNav.attempts >= 1
  /\ ~(maxReviews.given /\ Len(allReviews) >= maxReviews.n)


(* C24: navigateToNextPage is called only while the number of collected    *)
(* reviews is below the requested maximum.                                 *)
C24_AdvanceOnlyUnderCap ==
  pc = "navigate" => ~(maxReviews.given /\ Len(allReviews) >= maxReviews.n)


(* C25: when scrapeReviews has returned a result and the store can be      *)
(* written, the store file of the listing holds exactly the review map of  *)
(* the session's cache, and totalReviews of the result is the size of that *)
(* map.                                                                    *)
C25_PersistedOnReturn ==
  (/\ pc \in {"start", "done"}
   /\ outcomes # << >> /\ outcomes[Len(outcomes)].ok
   /\ fs.write)
  => LET file == disk[cache.cacheFile]
         result == allResults[Len(allResults)]
     IN  /\ file.kind = "object" /\ file.hasReviews
         /\ file.reviews = cache.reviews
         /\ result.totalReviews = Cardinality(DOMAIN cache.reviews)

C25_Witness ==
  /\ pc = "done"
  /\ outcomes # << >> /\ outcomes[Len(outcomes)].ok
  /\ fs.write
  /\ disk0[cache.cacheFile].kind = "absent"
  /\ cache.reviews # NoReviews
  /\ disk[cache.cacheFile].reviews = cache.reviews


C29_EmptyPageGoesOn ==
  [][/\ (pc = "extract" /\ pc' # "exit0" /\ reviewCards' = << >>)
        => /\ pc' = "merge"
           /\ pageReviews' = << >>
           /\ cache' = cache /\ allReviews' = allReviews /\ outcomes' = outcomes
     /\ (pc = "merge" /\ pc' # "exit0" /\ reviewCards = << >>)
        => /\ pc' \in {"navigate", "save"}
           /\ cache' = cache /\ allReviews' = allReviews /\ outcomes' = outcomes]_vars

C29_Witness ==
  /\ pc = "navigate"
  /\ currentPage >= 2
  /\ reviewCards = << >>
  /\ allReviews # << >>
  /\ stagnant = 1


(* C30: the sessions of a batch run one at a time in the order of the      *)
(* URLs: at most one session is under way, it is that of the current URL,  *)
(* every session before it has returned or failed, and the cache in use is *)
(* that of its listing.                                                    *)
C30_BatchSequential ==
  /\ Cardinality(active) <= 1
  /\ \A k \in active :
        /\ k = i
        /\ Len(outcomes) = k - 1
        /\ \A n \in 1..(k - 1) : outcomes[n].url = urls[n]
        /\ cache.cacheFile = hashUrl(urls[k])

C30_Witness ==
  /\ Len(urls) = 3
  /\ urls[2] # urls[1]
  /\ active = {3}
  /\ pc = "cards"
  /\ outcomes[1].ok /\ ~outcomes[2].ok


(* C31: in a batch the cooldown wait runs after the session of every URL   *)
(* but the last, whether the session returned or failed, and not after the *)
(* last.                                                                   *)
C31_CooldownBetweenSessions ==
  Len(urls) > 1 =>
    \A k \in DOMAIN outcomes : outcomes[k].cooldown <=> k < Len(urls)

(***************************************************************************)
(* C34: whichever strategy produced the reviewer name of an extracted      *)
(* card, the name has passed the UI-chrome denylist and is 2 to 50         *)
(* characters long, or it is "Anonymous"; and it is "Anonymous" when no    *)
(* candidate of the card passes.                                           *)
(***************************************************************************)
C34_NameFiltered ==
  \A j \in DOMAIN cardRes :
    cardRes[j] # << >> =>
      LET NamePassed(t) ==
            /\ t.word \notin ChromeWords \cup UiWords \cup MonthWords
            /\ TLen(t) >= NameMinLen /\ TLen(t) <= NameMaxLen
          card == CardDom[reviewCards[j]]
          name == cardRes[j][1].reviewerName
          candidates == {Trim(card.nameRaw), Trim(card.wroteRaw)}
                          \cup {Trim(card.spans[k]) : k \in DOMAIN card.spans}
      IN  /\ name = Anonymous \/ NamePassed(name)
          /\ (\A t \in candidates : ~(Truthy(t) /\ NamePassed(t))) => name = Anonymous

(***************************************************************************)
(* C32: the card locator evaluates its queries in the order of the list    *)
(* and uses the first that matches: once a query has matched at least one  *)
(* element no later query is evaluated, and the cards returned are matches *)
(* of the winning query alone (or of a child query inside its single       *)
(* match).                                                                 *)
(***************************************************************************)
C32_FirstMatchWins ==
  LET dom == PageDom[lastLocate.structure]
      matches(k) == Elements(Kind(dom.sel, reviewCardSelectors[k]), lastLocate.page)
      w == lastLocate.winner
  IN  lastLocate # NoLocate =>
        /\ \E n \in 0..Len(reviewCardSelectors) : lastLocate.evaluated = 1..n
        /\ \A k \in lastLocate.evaluated :
              Len(matches(k)) > 0 => \A later \in lastLocate.evaluated : later <= k
        /\ w > 0 =>
              /\ w \in lastLocate.evaluated
              /\ \/ lastLocate.cards = matches(w)
                 \/ /\ lastLocate.inner > 0
                    /\ lastLocate.cards =
                         Elements(Kind(dom.inner, innerSelectors[lastLocate.inner]),
                                  lastLocate.page)
        /\ w = 0 => lastLocate.cards = << >>

(***************************************************************************)
(* C33: when the winning query has exactly one match and the match is      *)
(* detected as the container, the cards are the matches of the first child *)
(* query with more than one match, and the container itself only when no   *)
(* child query has more than one; a single match that is not a container   *)
(* is returned as it is.                                                   *)
(***************************************************************************)
C33_ContainerRequery ==
  LET dom == PageDom[lastLocate.structure]
      w == lastLocate.winner
      single == Elements(Kind(dom.sel, reviewCardSelectors[w]), lastLocate.page)
      children(c) == IF Kind(dom.inner, innerSelectors[c]) = "throws" THEN << >>
                     ELSE Elements(Kind(dom.inner, innerSelectors[c]), lastLocate.page)
      many == {c \in 1..Len(innerSelectors) : Len(children(c)) > 1}
  IN  (w > 0 /\ Len(single) = 1) =>
        IF IsContainer(single[1])
        THEN IF many = {}
             THEN lastLocate.cards = single /\ lastLocate.inner = 0
             ELSE \E c \in many :
                    /\ \A d \in many : c <= d
                    /\ lastLocate.inner = c
                    /\ lastLocate.cards = children(c)
                    /\ lastLocate.tried = 1..c
        ELSE lastLocate.cards = single /\ lastLocate.inner = 0 /\ lastLocate.tried = {}

(* The container of "sFilters" was re-queried: the first child query threw, *)
(* the second matched one element, the third matched the two cards, which  *)
(* are being processed.                                                    *)
C33_Witness ==
  /\ pc = "cards"
  /\ lastLocate.structure = "sFilters"
  /\ lastLocate.winner = 5
  /\ lastLocate.inner = 3
  /\ Len(reviewCards) = 2
  /\ reviewCards = lastLocate.page

(***************************************************************************)
(* C35: no step other than an explicit clear takes a review out of a       *)
(* store or changes its record: every review a store file holds before a   *)
(* step of a session is in the file, with the same record, after the step. *)
(***************************************************************************)
C35_NeverExpires ==
  [][\A k \in Keys :
       cleared' = cleared =>
         \A id \in StoreIds(disk[k]) :
           /\ id \in StoreIds(disk'[k])
           /\ disk'[k].reviews[id] = disk[k].reviews[id]]_vars

(***************************************************************************)
(* C36: the id of every review a session has collected or returned is a    *)
(* key of the cache of the session, and in every result totalReviews is at *)
(* least scrapedReviews.                                                   *)
(***************************************************************************)
C36_ReturnedAreCached ==
  /\ pc \in {"extract", "cards", "merge", "navigate", "save"} =>
        Ids(allReviews) \subseteq DOMAIN cache.reviews
  /\ (pc \in {"start", "done"} /\ outcomes # << >> /\ outcomes[Len(outcomes)].ok) =>
        Ids(allResults[Len(allResults)].reviews) \subseteq DOMAIN cache.reviews
  /\ \A k \in 1..Len(allResults) :
        /\ allResults[k].totalReviews >= allResults[k].scrapedReviews
        /\ allResults[k].scrapedReviews = Len(allResults[k].reviews)

(* A session over an earlier store has returned reviews, one of them       *)
(* extracted in this session, and its cache holds more than it returned.   *)
C36_Witness ==
  /\ pc = "done"
  /\ outcomes[1].ok
  /\ allResults[1].scrapedReviews >= 2
  /\ allResults[1].totalReviews > allResults[1].scrapedReviews
  /\ inserted \cap Ids(allResults[1].reviews) # {}

(***************************************************************************)
(* C37: two ReviewCache instances constructed for URLs of different        *)
(* listings, with or without a "d<digits>" identifier, have different      *)
(* store files.                                                            *)
(***************************************************************************)
C37_ListingsIsolated ==
  \A a, b \in opened :
    UrlInfo[a.url].listing # UrlInfo[b.url].listing => a.cacheFile # b.cacheFile

(***************************************************************************)
(* C38: when the process has ended, on the failure path as well as on the  *)
(* success path, no browser profile that initialize opened is still open:  *)
(* each has been stopped through closeBrowser.                             *)
(***************************************************************************)
C38_ProfileStopped ==
  pc \in {"end", "exit1", "exit0"} => profile # "open"

(***************************************************************************)
(* C39: a scrapeReviews entered while the scraper has no page, and not cut *)
(* short by a signal, fails with the "Browser not initialized" error and   *)
(* leaves the cache state as it was: no ReviewCache is constructed, and    *)
(* the cache directory and the store files are neither made, read nor      *)
(* written.                                                                *)
(***************************************************************************)
C39_UninitializedHasNoEffect ==
  [][(pc = "start" /\ page = NoPage /\ pc' # "exit0") =>
       /\ Len(outcomes') = Len(outcomes) + 1
       /\ ~outcomes'[Len(outcomes')].ok
       /\ outcomes'[Len(outcomes')].error = NotInitializedError
       /\ UNCHANGED <<cache, opened, lastLoad, fs, disk, saved>>]_vars

(* Both sessions of a batch were entered without a page: both failed with  *)
(* the error, no cache was constructed and the cache directory was not     *)
(* made.                                                                   *)
C39_Witness ==
  /\ pc = "done"
  /\ Len(urls) = 2
  /\ outcomes[1].error = NotInitializedError
  /\ outcomes[2].error = NotInitializedError
  /\ cache = NoCache
  /\ opened = {}
  /\ fs.dir = "creatable"

=============================================================================
